---- MODULE Spec2Model ----
(***************************************************************************)
(* Transaction Analyzer (src/calculate.py): a Streamlit script that is     *)
(* re-run from top to bottom on every user interaction.  The state is the  *)
(* uploaded sheet, the three sidebar widgets, and what the last pass       *)
(* displayed.  Each action is one interaction followed by the full pass.   *)
(***************************************************************************)
EXTENDS Integers, Sequences, FiniteSets, TLC

\* ------------------------------------------------------------------ bounds
\* Largest number of rows of an uploaded sheet.
MaxRows == 3

\* ------------------------------------------------------- input universes
Columns == {"Transaction Date", "Account Code", "Base Amount"}

Years == {2022, 2023, 2024}
Codes == {"A100", "B200", "C300"}

\* A sheet row: the three cells, and the set of columns whose cell is empty
\* (the value written under an empty cell is never a value of the sheet).
\* A date is reduced to the two parts the script reads (.dt.year, .dt.month).
Row(y, m, code, amount, missing) ==
    [Transaction_Date |-> [year |-> y, month |-> m],
     Account_Code |-> code, Base_Amount |-> amount, missing |-> missing]

\* The rows a user's sheets are made of, in workbook order.
Workbook ==
    << Row(2024, 2, "B200", 2, {}),
       Row(2024, 1, "A100", 1, {}),
       Row(2024, 1, "A100", -1, {}),
       Row(2024, 2, "A100", 1, {}),
       Row(2023, 1, "A100", 1, {}),
       Row(2023, 4, "B200", 2, {}),
       Row(2022, 3, "A100", 1, {"Transaction Date"}),
       Row(2024, 4, "C300", 1, {"Account Code"}),
       Row(2024, 3, "B200", 1, {"Base Amount"}) >>

RECURSIVE Pick(_, _)
\* The rows of Workbook at the positions in I, in workbook order.
Pick(I, from) ==
    IF from > Len(Workbook) THEN <<>>
    ELSE IF from \in I THEN <<Workbook[from]>> \o Pick(I, from + 1)
    ELSE Pick(I, from + 1)

\* Every sheet of at most MaxRows rows taken from the workbook.
Sheets ==
    { Pick(I, 1) : I \in { J \in SUBSET (1..Len(Workbook)) : Cardinality(J) <= MaxRows } }

\* ------------------------------------------------------ library orderings
\* '%b' labels by month number, and Python's string order on them.
MonthAbbr == <<"Jan", "Feb", "Mar", "Apr", "May", "Jun",
               "Jul", "Aug", "Sep", "Oct", "Nov", "Dec">>
StrOrder == <<"A100", "Apr", "Aug", "B200", "Dec", "Feb", "Jan", "Jul", "Jun",
              "Mar", "May", "Nov", "Oct", "Sep">>

StrRank(s) == CHOOSE i \in 1..Len(StrOrder) : StrOrder[i] = s

Range(s) == { s[i] : i \in 1..Len(s) }

\* sorted(iterable, key=key): ascending, stable; here on distinct elements.
RECURSIVE SortBy(_, _)
SortBy(S, key) ==
    IF S = {} THEN <<>>
    ELSE LET m == CHOOSE x \in S : \A y \in S : key[x] <= key[y]
         IN  <<m>> \o SortBy(S \ {m}, key)

RECURSIVE SumSeq(_)
SumSeq(s) == IF s = <<>> THEN 0 ELSE Head(s) + SumSeq(Tail(s))

\* Series.unique(): distinct values in order of first occurrence.
RECURSIVE Unique(_)
Unique(s) ==
    IF s = <<>> THEN <<>>
    ELSE LET front == Unique(SubSeq(s, 1, Len(s) - 1))
             last == s[Len(s)]
         IN  IF last \in Range(front) THEN front ELSE Append(front, last)

\* ------------------------------------------------------- load and clean
\* dropna with 'Base Amount' left out of the subset.
dropna_TwoColumns(rows) ==
    SelectSeq(rows, LAMBDA r :
        r.missing \cap {"Transaction Date", "Account Code"} = {})

\* df.dropna(subset=[...]): keep the rows with none of the three cells empty.
dropna(rows) ==
    SelectSeq(rows, LAMBDA r :
        r.missing \cap {"Transaction Date", "Account Code", "Base Amount"} = {})

\* The three derived columns Year, Month ('%b') and Month_Num; the cells of
\* the sheet stay as they were.
DateProcessing(rows) ==
    [i \in 1..Len(rows) |->
        [missing      |-> rows[i].missing,
         Account_Code |-> rows[i].Account_Code,
         Base_Amount  |-> rows[i].Base_Amount,
         Year         |-> rows[i].Transaction_Date.year,
         Month        |-> MonthAbbr[rows[i].Transaction_Date.month],
         Month_Num    |-> rows[i].Transaction_Date.month]]

LoadAndClean(rows) == DateProcessing(dropna(rows))

\* --------------------------------------------------------- sidebar filters
\* A selectbox over no options returns None.
None == 0

\* sorted(df['Year'].unique(), reverse=True)
YearOptions(df) ==
    SortBy({ df[i].Year : i \in 1..Len(df) }, [y \in Years |-> 0 - y])

DfYear(df, year) == SelectSeq(df, LAMBDA r : r.Year = year)

\* sorted(df_year['Account Code'].unique())
AccountCodes(df_year) ==
    SortBy({ df_year[i].Account_Code : i \in 1..Len(df_year) },
           [c \in Codes |-> StrRank(c)])

\* df_year['Month'].unique()
MonthOptions(df_year) == Unique([i \in 1..Len(df_year) |-> df_year[i].Month])

\* dict(zip(df_year['Month'], df_year['Month_Num'])): the last pair of a
\* label wins.
MonthMap(df_year) ==
    [m \in { df_year[i].Month : i \in 1..Len(df_year) } |->
        LET last == CHOOSE i \in 1..Len(df_year) :
                        /\ df_year[i].Month = m
                        /\ \A j \in (i + 1)..Len(df_year) : df_year[j].Month # m
        IN  df_year[last].Month_Num]

\* sorted(month_options, key=lambda m: month_map[m])
SortedMonths(df_year) == SortBy(Range(MonthOptions(df_year)), MonthMap(df_year))

\* A widget that keeps its held value whatever its options have become.
WidgetValue_Keep(drawn, old_options, held, options, default) ==
    IF drawn THEN held ELSE default

\* A widget keeps the value the session holds for it only while it is the
\* same widget, i.e. it was drawn by the previous pass with the same
\* options; otherwise it starts from its default.
WidgetValue(drawn, old_options, held, options, default) ==
    IF drawn /\ old_options = options THEN held ELSE default

\* st.selectbox: default index 0.
SelectboxDefault(options) == IF options = <<>> THEN None ELSE options[1]

\* ------------------------------------------------------------ filtered data
\* The two membership masks joined with | instead of &.
FilteredDf_Or(df_year, codes, months) ==
    SelectSeq(df_year, LAMBDA r : r.Account_Code \in codes \/ r.Month \in months)

FilteredDf(df_year, codes, months) ==
    SelectSeq(df_year, LAMBDA r : r.Account_Code \in codes /\ r.Month \in months)

\* ------------------------------------------------------------------- KPIs
BaseAmountSum(df) == SumSeq([i \in 1..Len(df) |-> df[i].Base_Amount])

\* Series.mean(): the sum over the count, NaN for an empty series.  The
\* quotient is kept as the pair (num, den).
NaN == [nan |-> TRUE, num |-> 0, den |-> 0]

\* The quotient taken without regard to an empty series.
BaseAmountMean_NoGuard(df) ==
    [nan |-> FALSE, num |-> BaseAmountSum(df), den |-> Len(df)]

BaseAmountMean(df) ==
    IF Len(df) = 0 THEN NaN
    ELSE [nan |-> FALSE, num |-> BaseAmountSum(df), den |-> Len(df)]

KeyMetrics(df) ==
    [count |-> Len(df), total_amount |-> BaseAmountSum(df),
     average |-> BaseAmountMean(df)]

\* ------------------------------------------------------------ pivot table
GroupSum(df, code, month) ==
    BaseAmountSum(SelectSeq(df, LAMBDA r : r.Account_Code = code /\ r.Month = month))

\* A pivot that drops the rows whose amounts sum to 0.
PivotTable_DropZeroRows(df) ==
    LET codes  == { c \in { df[i].Account_Code : i \in 1..Len(df) } :
                      BaseAmountSum(SelectSeq(df, LAMBDA r : r.Account_Code = c)) # 0 }
        months == { df[i].Month : i \in 1..Len(df) }
    IN  [index   |-> SortBy(codes, [c \in codes |-> StrRank(c)]),
         columns |-> SortBy(months, [m \in months |-> StrRank(m)]),
         cell    |-> [c \in codes, m \in months |-> GroupSum(df, c, m)]]

\* pd.pivot_table(index='Account Code', columns='Month', aggfunc='sum',
\* fill_value=0): one row per code and one column per month label of the
\* frame, both in sorted order; a (code, month) pair with no record gets 0.
PivotTable(df) ==
    LET codes  == { df[i].Account_Code : i \in 1..Len(df) }
        months == { df[i].Month : i \in 1..Len(df) }
    IN  [index   |-> SortBy(codes, [c \in codes |-> StrRank(c)]),
         columns |-> SortBy(months, [m \in months |-> StrRank(m)]),
         cell    |-> [c \in codes, m \in months |-> GroupSum(df, c, m)]]

\* A reordering that keeps only the columns the pivot already has.
Reindex_NoFill(pv, labels) ==
    LET kept == SelectSeq(labels, LAMBDA m : m \in Range(pv.columns))
    IN  [index   |-> pv.index,
         columns |-> kept,
         cell    |-> [c \in Range(pv.index), m \in Range(kept) |-> pv.cell[c, m]]]

\* pivot.reindex(columns=labels, fill_value=0)
Reindex(pv, labels) ==
    [index   |-> pv.index,
     columns |-> labels,
     cell    |-> [c \in Range(pv.index), m \in Range(labels) |->
                    IF m \in Range(pv.columns) THEN pv.cell[c, m] ELSE 0]]

\* A row total that misses the first month column.
AddTotal_SkipFirst(pv) ==
    [index   |-> pv.index,
     columns |-> Append(pv.columns, "Total"),
     cell    |-> [c \in Range(pv.index), m \in Range(pv.columns) \cup {"Total"} |->
                    IF m = "Total"
                    THEN SumSeq([j \in 1..(Len(pv.columns) - 1) |-> pv.cell[c, pv.columns[j + 1]]])
                    ELSE pv.cell[c, m]]]

\* pivot['Total'] = pivot.sum(axis=1)
AddTotal(pv) ==
    [index   |-> pv.index,
     columns |-> Append(pv.columns, "Total"),
     cell    |-> [c \in Range(pv.index), m \in Range(pv.columns) \cup {"Total"} |->
                    IF m = "Total"
                    THEN SumSeq([j \in 1..Len(pv.columns) |-> pv.cell[c, pv.columns[j]]])
                    ELSE pv.cell[c, m]]]

Pivot(filtered, sorted_months) == AddTotal(Reindex(PivotTable(filtered), sorted_months))

\* ------------------------------------------------------------- bar chart
\* groupby('Month').agg(sum).reset_index(): one row per label, label-sorted.
GroupByMonth(df) ==
    LET months == { df[i].Month : i \in 1..Len(df) }
        order  == SortBy(months, [m \in months |-> StrRank(m)])
    IN  [j \in 1..Len(order) |->
            [Month |-> order[j],
             Base_Amount |-> BaseAmountSum(SelectSeq(df, LAMBDA r : r.Month = order[j]))]]

\* The grouped rows left in label order.
SortValuesByMonthNum_Unsorted(rows, month_map) ==
    [j \in 1..Len(rows) |->
        [Month |-> rows[j].Month, Base_Amount |-> rows[j].Base_Amount,
         Month_Num |-> month_map[rows[j].Month]]]

\* sort_values(by='Month_Num') after Month_Num = Month.map(month_map)
SortValuesByMonthNum(rows, month_map) ==
    LET keyed == [j \in 1..Len(rows) |->
                    [Month |-> rows[j].Month, Base_Amount |-> rows[j].Base_Amount,
                     Month_Num |-> month_map[rows[j].Month]]]
        perm  == SortBy(1..Len(rows), [j \in 1..Len(rows) |-> keyed[j].Month_Num])
    IN  [k \in 1..Len(rows) |-> keyed[perm[k]]]

MonthlyTotals(filtered, month_map) ==
    SortValuesByMonthNum(GroupByMonth(filtered), month_map)

\* ------------------------------------------------------------- pie chart
CodeTotals(df) ==
    LET codes == { df[i].Account_Code : i \in 1..Len(df) }
        order == SortBy(codes, [c \in codes |-> StrRank(c)])
    IN  [j \in 1..Len(order) |->
            [Account_Code |-> order[j],
             Base_Amount |-> BaseAmountSum(SelectSeq(df, LAMBDA r : r.Account_Code = order[j]))]]

\* Excel export: one sheet, named after the selected year, holding the pivot.
ExcelExport(pv, year) == [sheet_name |-> <<"Pivot_", year>>, table |-> pv,
                          file_name |-> <<"pivot_", year, ".xlsx">>]

\* -------------------------------------------------------------------- state
VARIABLES
    uploaded_file,      \* the file uploader's value: [present, rows]
    df,                 \* cleaned frame with derived columns
    year_options,       \* options of the year selectbox
    selected_year,
    df_year,
    account_codes,      \* options of the account-code multiselect
    selected_codes,
    sorted_months,      \* options of the month multiselect
    selected_months,
    filtered_df,
    metrics,
    pivot,
    monthly_totals,
    code_totals,
    output,             \* the workbook behind the download button
    shown               \* the elements the last pass put on the page

vars == <<uploaded_file, df, year_options, selected_year, df_year, account_codes,
          selected_codes, sorted_months, selected_months, filtered_df, metrics,
          pivot, monthly_totals, code_totals, output, shown>>

NoFile == [present |-> FALSE, rows |-> <<>>]

ReportElements == {"metrics", "pivot", "bar_chart", "pie_chart", "download_button"}

\* The else branch: only the st.info message; nothing is computed.
InfoBranch ==
    /\ df' = <<>>
    /\ year_options' = <<>>
    /\ selected_year' = None
    /\ df_year' = <<>>
    /\ account_codes' = <<>>
    /\ selected_codes' = {}
    /\ sorted_months' = <<>>
    /\ selected_months' = {}
    /\ filtered_df' = <<>>
    /\ metrics' = KeyMetrics(<<>>)
    /\ pivot' = Pivot(<<>>, <<>>)
    /\ monthly_totals' = <<>>
    /\ code_totals' = <<>>
    /\ output' = <<>>
    /\ shown' = {"info"}

\* The if branch: the whole report, from the sheet and the widget values the
\* session holds (held) after the interaction that triggered the pass.
ReportBranch(file, held) ==
    \E df_ \in {LoadAndClean(file.rows)} :
    \E yo \in {YearOptions(df_)} :
    \E year \in {WidgetValue(uploaded_file.present, year_options, held.year, yo, SelectboxDefault(yo))} :
    \E dy \in {DfYear(df_, year)} :
    \E ac \in {AccountCodes(dy)} :
    \E codes \in {WidgetValue(uploaded_file.present, account_codes, held.codes, ac, Range(ac))} :
    \E mm \in {MonthMap(dy)} :
    \E sm \in {SortedMonths(dy)} :
    \E mths \in {WidgetValue(uploaded_file.present, sorted_months, held.months, sm, Range(sm))} :
    \E fd \in {FilteredDf(dy, codes, mths)} :
    \E pv \in {Pivot(fd, sm)} :
        /\ df' = df_
        /\ year_options' = yo
        /\ selected_year' = year
        /\ df_year' = dy
        /\ account_codes' = ac
        /\ selected_codes' = codes
        /\ sorted_months' = sm
        /\ selected_months' = mths
        /\ filtered_df' = fd
        /\ metrics' = KeyMetrics(fd)
        /\ pivot' = pv
        /\ monthly_totals' = MonthlyTotals(fd, mm)
        /\ code_totals' = CodeTotals(fd)
        /\ output' = <<ExcelExport(pv, year)>>
        /\ shown' = ReportElements

\* A run that builds the report whether or not a file is there.
Pass_AlwaysReport(file, held) ==
    /\ uploaded_file' = file
    /\ ReportBranch(file, held)

\* One run of the script.
Pass(file, held) ==
    /\ uploaded_file' = file
    /\ IF file.present THEN ReportBranch(file, held) ELSE InfoBranch

Held == [year |-> selected_year, codes |-> selected_codes, months |-> selected_months]

Init ==
    /\ uploaded_file = NoFile
    /\ df = <<>>
    /\ year_options = <<>>
    /\ selected_year = None
    /\ df_year = <<>>
    /\ account_codes = <<>>
    /\ selected_codes = {}
    /\ sorted_months = <<>>
    /\ selected_months = {}
    /\ filtered_df = <<>>
    /\ metrics = KeyMetrics(<<>>)
    /\ pivot = Pivot(<<>>, <<>>)
    /\ monthly_totals = <<>>
    /\ code_totals = <<>>
    /\ output = <<>>
    /\ shown = {"info"}

\* ---------------------------------------------------------------- actions
Upload ==
    \E rows \in Sheets : Pass([present |-> TRUE, rows |-> rows], Held)

RemoveFile ==
    /\ uploaded_file.present
    /\ Pass(NoFile, Held)

SelectYear ==
    /\ uploaded_file.present
    /\ \E y \in Range(year_options) :
           Pass(uploaded_file, [Held EXCEPT !.year = y])

SelectCodes ==
    /\ uploaded_file.present
    /\ \E S \in SUBSET Range(account_codes) :
           Pass(uploaded_file, [Held EXCEPT !.codes = S])

SelectMonths ==
    /\ uploaded_file.present
    /\ \E S \in SUBSET Range(sorted_months) :
           Pass(uploaded_file, [Held EXCEPT !.months = S])

Next == Upload \/ RemoveFile \/ SelectYear \/ SelectCodes \/ SelectMonths

Spec == Init /\ [][Next]_vars

\* ------------------------------------------------------------- properties
\* Calendar number of a '%b' label.
CalendarNum(label) == CHOOSE n \in 1..12 : MonthAbbr[n] = label

RECURSIVE AmountOver(_, _)
\* Sum of Base_Amount over the positions I of the frame d.
AmountOver(d, I) ==
    IF I = {} THEN 0
    ELSE LET i == CHOOSE j \in I : TRUE
         IN  d[i].Base_Amount + AmountOver(d, I \ {i})

\* Number of occurrences of r in the frame d.
Occurrences(d, r) == Cardinality({ i \in 1..Len(d) : d[i] = r })

\* The month columns of the pivot: all columns but the trailing Total.
MonthColumns == SubSeq(pivot.columns, 1, Len(pivot.columns) - 1)

Reported == "pivot" \in shown

\* C1: the month columns of the pivot are exactly the selected months, in
\* calendar order; a deselected month of the selected year is not a column.
C1_ColumnsAreSelectedMonths ==
    Reported =>
        /\ Range(MonthColumns) = selected_months
        /\ Len(MonthColumns) = Cardinality(selected_months)
        /\ \A i, j \in 1..Len(MonthColumns) :
               i < j => CalendarNum(MonthColumns[i]) < CalendarNum(MonthColumns[j])

\* C2: the Total column summed over all pivot rows equals the total_amount
\* metric of the same pass.
C2_TotalsAgree ==
    Reported =>
        SumSeq([k \in 1..Len(pivot.index) |-> pivot.cell[pivot.index[k], "Total"]])
            = metrics.total_amount

C2_Witness ==
    /\ Reported
    /\ Len(pivot.index) = 2
    /\ metrics.total_amount # 0
    /\ selected_months # Range(sorted_months)
    /\ selected_months # {}

\* C3: the filtered subset holds exactly the cleaned records of the selected
\* year with a selected account code and a selected month: each of them as
\* often as in the cleaned data, and nothing else.
C3_FilterExact ==
    Reported =>
        \A r \in Range(df) \cup Range(filtered_df) :
            Occurrences(filtered_df, r) =
                IF /\ r.Year = selected_year
                   /\ r.Account_Code \in selected_codes
                   /\ r.Month \in selected_months
                THEN Occurrences(df, r) ELSE 0

C3_Witness ==
    /\ Reported
    /\ filtered_df # <<>>
    /\ Len(df_year) < Len(df)
    /\ Len(filtered_df) < Len(df_year)

\* C4: a pass whose filtered subset is empty completes with the whole report:
\* count 0, total 0, the NaN sentinel as average (never a quotient by 0) and
\* a pivot without rows.
C4_EmptySelection ==
    /\ uploaded_file.present => metrics.average.nan \/ metrics.average.den # 0
    /\ (uploaded_file.present /\ filtered_df = <<>>) =>
           /\ shown = ReportElements
           /\ metrics.count = 0
           /\ metrics.total_amount = 0
           /\ metrics.average = NaN
           /\ pivot.index = <<>>

C4_Witness ==
    /\ uploaded_file.present
    /\ df_year # <<>>
    /\ selected_codes = {}
    /\ selected_months # {}
    /\ filtered_df = <<>>

\* The selections are drawn from the records of the selected year.
SelectionsFromYear ==
    /\ selected_codes \subseteq
           { df[i].Account_Code : i \in { j \in 1..Len(df) : df[j].Year = selected_year } }
    /\ selected_months \subseteq
           { df[i].Month : i \in { j \in 1..Len(df) : df[j].Year = selected_year } }

\* C5 as stated: after any interactions the selected codes and months occur
\* in records of the selected year, and the selected year occurs in the data.
C5_SelectionsFromYearAlways ==
    uploaded_file.present =>
        /\ SelectionsFromYear
        /\ selected_year \in { df[i].Year : i \in 1..Len(df) }

\* C5 amended: the selected codes and months occur in records of the selected
\* year; the selected year occurs in the data whenever a record survives
\* cleaning, and is None, with both selections empty, when none does.
C5_SelectionsFromYear ==
    uploaded_file.present =>
        /\ SelectionsFromYear
        /\ df # <<>> => selected_year \in { df[i].Year : i \in 1..Len(df) }
        /\ df = <<>> => selected_year = None /\ selected_codes = {} /\ selected_months = {}

\* A deselection that was kept while the sheet holds, in another year, a code
\* and a month the selected year does not have.
C5_Witness ==
    /\ uploaded_file.present
    /\ selected_codes # Range(account_codes)
    /\ selected_months # {}
    /\ \E i \in 1..Len(df) :
           /\ df[i].Year # selected_year
           /\ df[i].Account_Code \notin Range(account_codes)
           /\ df[i].Month \notin Range(sorted_months)

\* C6: the pivot rows are the distinct account codes of the filtered subset,
\* ascending; each row's Total is the sum of the code's filtered amounts, so
\* a code summing to 0 keeps its row and a selected code without a filtered
\* record has none.
C6_PivotRows ==
    Reported =>
        /\ Range(pivot.index) = { filtered_df[i].Account_Code : i \in 1..Len(filtered_df) }
        /\ \A i, j \in 1..Len(pivot.index) :
               i < j => StrRank(pivot.index[i]) < StrRank(pivot.index[j])
        /\ \A c \in Range(pivot.index) :
               pivot.cell[c, "Total"] =
                   AmountOver(filtered_df,
                              { i \in 1..Len(filtered_df) : filtered_df[i].Account_Code = c })

C6_Witness ==
    /\ Reported
    /\ \E c \in Range(pivot.index) : pivot.cell[c, "Total"] = 0
    /\ \E c \in selected_codes : c \notin Range(pivot.index)

\* C7: every selected month is a pivot column, and every month cell is the sum
\* of the filtered amounts of its account code and month: 0 where the month
\* has no filtered record.
C7_MonthCells ==
    Reported =>
        /\ selected_months \subseteq Range(MonthColumns)
        /\ \A c \in Range(pivot.index), m \in Range(MonthColumns) :
               pivot.cell[c, m] =
                   AmountOver(filtered_df,
                              { i \in 1..Len(filtered_df) :
                                    /\ filtered_df[i].Account_Code = c
                                    /\ filtered_df[i].Month = m })

C7_Witness ==
    /\ Reported
    /\ pivot.index # <<>>
    /\ \E m \in selected_months :
           /\ \A i \in 1..Len(filtered_df) : filtered_df[i].Month # m
           /\ \A c \in Range(pivot.index) : pivot.cell[c, m] = 0

\* C8: monthly_totals has one entry per month label of the filtered subset,
\* with the sum of that month's filtered amounts, in strictly ascending
\* calendar order.
C8_MonthlyTotals ==
    Reported =>
        /\ { monthly_totals[k].Month : k \in 1..Len(monthly_totals) }
               = { filtered_df[i].Month : i \in 1..Len(filtered_df) }
        /\ \A k \in 1..Len(monthly_totals) :
               monthly_totals[k].Base_Amount =
                   AmountOver(filtered_df,
                              { i \in 1..Len(filtered_df) :
                                    filtered_df[i].Month = monthly_totals[k].Month })
        /\ \A k, l \in 1..Len(monthly_totals) :
               k < l => CalendarNum(monthly_totals[k].Month)
                            < CalendarNum(monthly_totals[l].Month)

\* Two months whose calendar order is neither their label order nor their
\* order of first occurrence.
C8_Witness ==
    /\ Reported
    /\ Len(monthly_totals) = 2
    /\ StrRank(monthly_totals[2].Month) < StrRank(monthly_totals[1].Month)
    /\ filtered_df[1].Month = monthly_totals[2].Month

\* The rows of the uploaded sheet with no empty cell, by position.
CompleteAt == { i \in 1..Len(uploaded_file.rows) : uploaded_file.rows[i].missing = {} }

\* C9: only rows with all three cells present reach the computations; a row
\* with an empty cell adds to no count, sum, pivot row or cell, nor to the
\* selectable years, account codes and months.
C9_OnlyCompleteRows ==
    uploaded_file.present =>
        LET rows == uploaded_file.rows
            sel  == { i \in CompleteAt :
                        /\ rows[i].Transaction_Date.year = selected_year
                        /\ rows[i].Account_Code \in selected_codes
                        /\ MonthAbbr[rows[i].Transaction_Date.month] \in selected_months }
        IN  /\ \A i \in 1..Len(df) : df[i].missing = {}
            /\ \A i \in 1..Len(filtered_df) : filtered_df[i].missing = {}
            /\ Len(df) = Cardinality(CompleteAt)
            /\ Range(year_options) = { rows[i].Transaction_Date.year : i \in CompleteAt }
            /\ Range(account_codes) \subseteq { rows[i].Account_Code : i \in CompleteAt }
            /\ Range(sorted_months) \subseteq
                   { MonthAbbr[rows[i].Transaction_Date.month] : i \in CompleteAt }
            /\ metrics.count = Cardinality(sel)
            /\ metrics.total_amount = AmountOver(rows, sel)
            /\ Range(pivot.index) = { rows[i].Account_Code : i \in sel }
            /\ \A c \in Range(pivot.index) :
                   pivot.cell[c, "Total"] =
                       AmountOver(rows, { i \in sel : rows[i].Account_Code = c })
            /\ { monthly_totals[k].Month : k \in 1..Len(monthly_totals) }
                   = { MonthAbbr[rows[i].Transaction_Date.month] : i \in sel }
            /\ { code_totals[k].Account_Code : k \in 1..Len(code_totals) }
                   = { rows[i].Account_Code : i \in sel }

C9_Witness ==
    /\ uploaded_file.present
    /\ filtered_df # <<>>
    /\ \E i, j \in 1..Len(uploaded_file.rows) :
           /\ uploaded_file.rows[i].missing # {}
           /\ uploaded_file.rows[j].missing # {}
           /\ uploaded_file.rows[i].missing # uploaded_file.rows[j].missing

\* C10: without a file the pass shows only the informational message and
\* computes nothing; with a file it shows the whole report and no message.
C10_InfoUntilFile ==
    /\ ~uploaded_file.present =>
           /\ shown = {"info"}
           /\ output = <<>>
           /\ df = <<>> /\ filtered_df = <<>>
           /\ monthly_totals = <<>> /\ code_totals = <<>>
           /\ pivot.index = <<>>
    /\ uploaded_file.present =>
           /\ shown = ReportElements
           /\ Len(output) = 1

C10_Witness ==
    /\ ~uploaded_file.present
    /\ shown = {"info"}
    /\ "download_button" \notin shown

====
